---- MODULE Spec2Model ----
(***************************************************************************)
(* exif-extract: the tag reconciliation of gatherTags, the shared          *)
(* missing-tag ledger (logMissingTag) and the batch driver                  *)
(* processDirectories, modelled from src/modules/logic.mjs.                 *)
(*                                                                         *)
(* JavaScript strings are sequences of one-character strings, so that the  *)
(* whitespace test and the string coercion of the source are computed,     *)
(* not assumed.  Paths are sequences of segments, each segment a string.   *)
(***************************************************************************)
EXTENDS Integers, Sequences, FiniteSets, TLC

(***************************************************************************)
(* Bounds of the model.                                                    *)
(***************************************************************************)
MaxSpecLen == 2
MaxFiles == 2
MaxRunFiles == 1
MaxEntries == 2

(***************************************************************************)
(* JavaScript values.                                                      *)
(***************************************************************************)
Undefined == [type |-> "undefined"]
Null == [type |-> "null"]
Str(cs) == [type |-> "string", chars |-> cs]
Num(n) == [type |-> "number", num |-> n]
Bool(b) == [type |-> "boolean", bool |-> b]
Arr(es) == [type |-> "array", elems |-> es]
\* an object literal: own enumerable keys in insertion order, and their values
Obj(ks, vs) == [type |-> "object", keys |-> ks, vals |-> vs]

\* property names used by the source
ValKey == <<"v", "a", "l">>
WriteKey == <<"w", "r", "i", "t", "e">>
SourceFileKey == <<"S", "o", "u", "r", "c", "e", "F", "i", "l", "e">>
DirectoryKey == <<"D", "i", "r", "e", "c", "t", "o", "r", "y">>
TitleKey == <<"T", "i", "t", "l", "e">>
CreatorContactInfoKey ==
  <<"C", "r", "e", "a", "t", "o", "r", "C", "o", "n", "t", "a", "c", "t", "I", "n", "f", "o">>
CreatorWorkURLKey == <<"C", "r", "e", "a", "t", "o", "r", "W", "o", "r", "k", "U", "R", "L">>
CiUrlWorkKey == <<"C", "i", "U", "r", "l", "W", "o", "r", "k">>
CreditKey == <<"C", "r", "e", "d", "i", "t">>
UndefinedChars == <<"u", "n", "d", "e", "f", "i", "n", "e", "d">>

\* characters matched by \s in a JavaScript regular expression
Whitespace == {" ", "\t", "\n", "\r"}

\* helpers.mjs isObject: typeof value === 'object' && value !== null && !Array.isArray(value)
isObject(value) == value.type = "object"

\* position of key k among the own keys of an object literal, 0 when absent
KeyIndex(o, k) ==
  IF \E i \in 1..Len(o.keys) : o.keys[i] = k
  THEN CHOOSE i \in 1..Len(o.keys) : o.keys[i] = k
  ELSE 0

\* o.hasOwnProperty(k) for a value that is neither null nor undefined:
\* primitives and arrays own no property named like a tag, 'val' or 'write'
HasOwn(o, k) == o.type = "object" /\ KeyIndex(o, k) # 0

\* o[k] for a value that is neither null nor undefined
GetProp(o, k) == IF HasOwn(o, k) THEN o.vals[KeyIndex(o, k)] ELSE Undefined

\* JavaScript truthiness (if (x) ...)
Truthy(v) ==
  CASE v.type = "undefined" -> FALSE
    [] v.type = "null" -> FALSE
    [] v.type = "string" -> Len(v.chars) > 0
    [] v.type = "number" -> v.num # 0
    [] v.type = "boolean" -> v.bool
    [] OTHER -> TRUE

\* decimal digits of a natural number
RECURSIVE Digits(_)
Digits(n) ==
  LET d == <<"0", "1", "2", "3", "4", "5", "6", "7", "8", "9">>
  IN IF n < 10 THEN <<d[n + 1]>> ELSE Digits(n \div 10) \o <<d[(n % 10) + 1]>>

\* String(v): the coercion RegExp.prototype.test applies to its argument
RECURSIVE JsString(_)
RECURSIVE JoinElems(_)
JoinElems(es) ==
  IF Len(es) = 0 THEN <<>>
  ELSE LET h == IF es[1].type \in {"undefined", "null"} THEN <<>> ELSE JsString(es[1])
       IN IF Len(es) = 1 THEN h ELSE h \o <<",">> \o JoinElems(Tail(es))
JsString(v) ==
  CASE v.type = "undefined" -> UndefinedChars
    [] v.type = "null" -> <<"n", "u", "l", "l">>
    [] v.type = "string" -> v.chars
    [] v.type = "number" ->
         IF v.num < 0 THEN <<"-">> \o Digits(-v.num) ELSE Digits(v.num)
    [] v.type = "boolean" ->
         IF v.bool THEN <<"t", "r", "u", "e">> ELSE <<"f", "a", "l", "s", "e">>
    [] v.type = "array" -> JoinElems(v.elems)
    [] OTHER -> <<"[", "o", "b", "j", "e", "c", "t", " ", "O", "b", "j", "e", "c", "t", "]">>

\* /^\s*$/.test(v)
WhitespaceOnly(v) ==
  LET s == JsString(v) IN \A i \in 1..Len(s) : s[i] \in Whitespace

\* the condition with the regular expression left unanchored (/\s*/), which
\* matches every string
IsMissing_Unanchored(v) ==
  \/ v.type = "undefined"
  \/ v.type = "null"
  \/ Len(JsString(v)) >= 0

\* the condition of logic.mjs lines 29-33
IsMissing(v) ==
  \/ v.type = "undefined"
  \/ v.type = "null"
  \/ WhitespaceOnly(v)

(***************************************************************************)
(* Metadata objects and records: functions from tag names to values; a     *)
(* key that is not in the domain reads as undefined.                       *)
(***************************************************************************)
EmptyObject == [k \in {} |-> Undefined]
Get(m, k) == IF k \in DOMAIN m THEN m[k] ELSE Undefined
Put(m, k, v) == [x \in (DOMAIN m) \cup {k} |-> IF x = k THEN v ELSE m[x]]

(***************************************************************************)
(* Paths (node:path, posix): an absolute path is its sequence of segments. *)
(***************************************************************************)
\* path.dirname
Dirname(p) == IF Len(p) = 0 THEN p ELSE SubSeq(p, 1, Len(p) - 1)
\* path.basename
Basename(p) == IF Len(p) = 0 THEN <<>> ELSE p[Len(p)]

\* length of the longest common prefix of two paths
RECURSIVE CommonPrefix(_, _)
CommonPrefix(a, b) ==
  IF Len(a) = 0 \/ Len(b) = 0 \/ a[1] # b[1] THEN 0
  ELSE 1 + CommonPrefix(Tail(a), Tail(b))

\* path.relative(from, to): one ".." per segment of from below the common
\* prefix, then the segments of to below it
Relative(from, to) ==
  LET c == CommonPrefix(from, to)
  IN [i \in 1..(Len(from) - c) |-> <<".", ".">>] \o SubSeq(to, c + 1, Len(to))

\* the string of a relative path: its segments joined by "/"
RECURSIVE JoinPath(_)
JoinPath(p) ==
  IF Len(p) = 0 THEN <<>>
  ELSE IF Len(p) = 1 THEN p[1]
  ELSE p[1] \o <<"/">> \o JoinPath(Tail(p))

(***************************************************************************)
(* The missing-tag ledger (helpers: missingTags, logMissingTag).           *)
(***************************************************************************)
\* the ledger keyed by the whole path instead of the base name
logMissingTag_FullPath(ledger, absFilePath, tag, val) ==
  LET fileName == <<"/">> \o JoinPath(absFilePath)
      own == IF fileName \in DOMAIN ledger THEN ledger[fileName] ELSE EmptyObject
  IN Put(ledger, fileName, Put(own, tag, val))

\* the file's entry reset on every call (the test of line 425 left out)
logMissingTag_ResetFile(ledger, absFilePath, tag, val) ==
  LET fileName == Basename(absFilePath)
  IN Put(ledger, fileName, Put(EmptyObject, tag, val))

\* the value pushed onto what the slot already holds instead of assigned
logMissingTag_Push(ledger, absFilePath, tag, val) ==
  LET fileName == Basename(absFilePath)
      own == IF fileName \in DOMAIN ledger THEN ledger[fileName] ELSE EmptyObject
  IN Put(ledger, fileName,
         Put(own, tag, IF tag \in DOMAIN own THEN Arr(<<own[tag], val>>) ELSE val))

\* logMissingTag(absFilePath, tag, val) applied to the ledger; the ledger is
\* a function from file names to functions from tag names to values
logMissingTag(ledger, absFilePath, tag, val) ==
  LET fileName == Basename(absFilePath)
      own == IF fileName \in DOMAIN ledger THEN ledger[fileName] ELSE EmptyObject
  IN Put(ledger, fileName, Put(own, tag, val))

\* missingTags[fileName], empty when the file name has no entry
LedgerOf(ledger, fileName) ==
  IF fileName \in DOMAIN ledger THEN ledger[fileName] ELSE EmptyObject

(***************************************************************************)
(* gatherTags: the loop body of logic.mjs lines 25-58.                     *)
(***************************************************************************)
\* a value on which a property read throws a TypeError
Nullish(v) == v.type \in {"undefined", "null"}

\* Object.keys(entry)[0] as a property name (undefined reads as "undefined")
FirstKey(entry) ==
  CASE entry.type = "object" ->
         IF Len(entry.keys) > 0 THEN entry.keys[1] ELSE UndefinedChars
    [] entry.type = "array" ->
         IF Len(entry.elems) > 0 THEN <<"0">> ELSE UndefinedChars
    [] OTHER -> UndefinedChars

\* line 26: typeof entry === 'string' ? entry : Object.keys(entry)[0]
EntryTag(entry) == IF entry.type = "string" THEN entry.chars ELSE FirstKey(entry)

\* entry[tag] for the tag of the entry itself
EntryProp(entry, tag) ==
  CASE entry.type = "object" -> GetProp(entry, tag)
    [] entry.type = "array" ->
         IF tag = <<"0">> /\ Len(entry.elems) > 0 THEN entry.elems[1] ELSE Undefined
    [] OTHER -> Undefined

\* line 27: isObject(entry) ? entry[tag]?.val : entry[tag]
EntryVal(entry, tag) ==
  LET ev == EntryProp(entry, tag)
  IN IF isObject(entry)
     THEN (IF Nullish(ev) THEN Undefined ELSE GetProp(ev, ValKey))
     ELSE ev

\* the missing branch assigning the fallback for every entry shape, so that
\* a bare request is filled with its (undefined) fallback
Fallback_NullFill(st, entry, tag, absFilePath) ==
  LET ev == EntryProp(entry, tag)
      val == EntryVal(entry, tag)
  IN IF ~isObject(entry) THEN [st EXCEPT !.rec = Put(st.rec, tag, val)]
     ELSE IF Nullish(ev) THEN [st EXCEPT !.threw = TRUE]
     ELSE IF ~HasOwn(ev, ValKey) THEN [st EXCEPT !.rec = Put(st.rec, tag, ev)]
     ELSE [st EXCEPT
             !.rec = Put(st.rec, tag, val),
             !.ledger = IF Truthy(GetProp(ev, WriteKey))
                        THEN logMissingTag(st.ledger, absFilePath, tag, val)
                        ELSE st.ledger]

\* the missing branch with line 46 active: a write: true entry calls
\* writeTagToFile, which issues exiftool.write(absFilePath, {[tag]: val})
Fallback_WritesTag(st, entry, tag, absFilePath) ==
  LET ev == EntryProp(entry, tag)
      val == EntryVal(entry, tag)
  IN IF ~isObject(entry) THEN st
     ELSE IF Nullish(ev) THEN [st EXCEPT !.threw = TRUE]
     ELSE IF ~HasOwn(ev, ValKey) THEN [st EXCEPT !.rec = Put(st.rec, tag, ev)]
     ELSE [st EXCEPT
             !.rec = Put(st.rec, tag, val),
             !.writes = IF Truthy(GetProp(ev, WriteKey))
                        THEN st.writes \cup {<<absFilePath, tag, val>>}
                        ELSE st.writes,
             !.ledger = IF Truthy(GetProp(ev, WriteKey))
                        THEN logMissingTag(st.ledger, absFilePath, tag, val)
                        ELSE st.ledger]

\* Lines 34-52, the branch taken when the tag is missing on the file.
\* st = [rec, ledger, threw, writes]: the filtered metadata so far, the
\* ledger, whether a TypeError left the loop, and the exiftool.write calls
\* issued.  Line 46, the call of writeTagToFile, is commented out: a
\* write: true entry is logged and nothing is written.
Fallback(st, entry, tag, absFilePath) ==
  LET ev == EntryProp(entry, tag)
      val == EntryVal(entry, tag)
  IN IF ~isObject(entry) THEN st
     ELSE IF Nullish(ev) THEN [st EXCEPT !.threw = TRUE]   \* null.hasOwnProperty
     ELSE IF ~HasOwn(ev, ValKey) THEN [st EXCEPT !.rec = Put(st.rec, tag, ev)]
     ELSE [st EXCEPT
             !.rec = Put(st.rec, tag, val),
             !.ledger = IF Truthy(GetProp(ev, WriteKey))
                        THEN logMissingTag(st.ledger, absFilePath, tag, val)
                        ELSE st.ledger]

\* Lines 54-56, the branch taken when the tag has a value on the file.
OnDisk(st, tag, mv) ==
  IF Truthy(mv) THEN [st EXCEPT !.rec = Put(st.rec, tag, mv)] ELSE st

\* one iteration that fills a missing flattened tag, CreatorWorkURL, from
\* its parent group CreatorContactInfo when the file has it
ReconcileEntry_Synthesized(st, entry, metadata, absFilePath) ==
  IF st.threw THEN st
  ELSE IF Nullish(entry) THEN [st EXCEPT !.threw = TRUE]
  ELSE
    LET tag == EntryTag(entry)
        mv == Get(metadata, tag)
    IN IF IsMissing(mv)
       THEN (IF tag = CreatorWorkURLKey /\ isObject(Get(metadata, CreatorContactInfoKey))
             THEN [st EXCEPT !.rec = Put(st.rec, tag,
                                         GetProp(Get(metadata, CreatorContactInfoKey), CiUrlWorkKey))]
             ELSE Fallback(st, entry, tag, absFilePath))
       ELSE OnDisk(st, tag, mv)

\* One iteration of the loop, lines 26-57.
ReconcileEntry(st, entry, metadata, absFilePath) ==
  IF st.threw THEN st
  ELSE IF Nullish(entry) THEN [st EXCEPT !.threw = TRUE]   \* Object.keys(null)
  ELSE
    LET tag == EntryTag(entry)
        mv == Get(metadata, tag)
    IN IF IsMissing(mv)
       THEN Fallback(st, entry, tag, absFilePath)
       ELSE OnDisk(st, tag, mv)

\* the for loop over tagOptions
RECURSIVE ReconcileLoop(_, _, _, _)
ReconcileLoop(st, entries, metadata, absFilePath) ==
  IF Len(entries) = 0 THEN st
  ELSE ReconcileLoop(ReconcileEntry(st, entries[1], metadata, absFilePath),
                     Tail(entries), metadata, absFilePath)

\* the path keys set only when the record does not have them yet
WithPathKeys_KeepExisting(rec, absFilePath, root) ==
  LET r1 == IF SourceFileKey \in DOMAIN rec THEN rec
            ELSE Put(rec, SourceFileKey, Str(JoinPath(Relative(root, absFilePath))))
  IN IF DirectoryKey \in DOMAIN r1 THEN r1
     ELSE Put(r1, DirectoryKey, Str(JoinPath(Relative(root, Dirname(absFilePath)))))

\* lines 63-67: the two path keys set on the record
WithPathKeys(rec, absFilePath, root) ==
  Put(Put(rec, SourceFileKey, Str(JoinPath(Relative(root, absFilePath)))),
      DirectoryKey, Str(JoinPath(Relative(root, Dirname(absFilePath)))))

\* the loop filling a copy of the raw metadata instead of an empty object
Reconcile_OntoRaw(metadata, absFilePath, root, spec, ledger) ==
  LET st == ReconcileLoop([rec |-> metadata, ledger |-> ledger, threw |-> FALSE, writes |-> {}],
                          spec, metadata, absFilePath)
  IN [st EXCEPT !.rec = IF st.threw THEN EmptyObject
                         ELSE WithPathKeys(st.rec, absFilePath, root)]

\* the loop run whatever the length of the specification
Reconcile_AlwaysFilter(metadata, absFilePath, root, spec, ledger) ==
  LET st == ReconcileLoop([rec |-> EmptyObject, ledger |-> ledger, threw |-> FALSE, writes |-> {}],
                          spec, metadata, absFilePath)
  IN [st EXCEPT !.rec = IF st.threw THEN EmptyObject
                         ELSE WithPathKeys(st.rec, absFilePath, root)]

\* lines 22-68, after the read has resolved with metadata: the record, the
\* ledger afterwards, and whether the try block threw
Reconcile(metadata, absFilePath, root, spec, ledger) ==
  LET st == IF Len(spec) > 0
            THEN ReconcileLoop([rec |-> EmptyObject, ledger |-> ledger, threw |-> FALSE, writes |-> {}],
                               spec, metadata, absFilePath)
            ELSE [rec |-> metadata, ledger |-> ledger, threw |-> FALSE, writes |-> {}]
  IN [st EXCEPT !.rec = IF st.threw THEN EmptyObject
                         ELSE WithPathKeys(st.rec, absFilePath, root)]

(***************************************************************************)
(* Inputs.                                                                 *)
(***************************************************************************)
\* sequences over S of length at most n
SeqsUpTo(S, n) == UNION {[1..k -> S] : k \in 0..n}

\* one-character strings
Str1(c) == Str(<<c>>)
FallbackStr == Str1("f")
\* a value set on the file: a string with whitespace and other characters
OnDiskStr == Str(<<" ", "a">>)

\* raw values the metadata source returns for a tag
RawValues ==
  {Null, Str(<<>>), Str(<<" ">>), Str(<<"\t", " ">>), OnDiskStr, Num(0), Bool(FALSE), Arr(<<>>)}

\* raw metadata of one file: Title takes any raw value or is absent, the
\* SourceFile and Directory tags exiftool reports are present or absent
RawMetadata ==
  { [k \in ks |-> IF k = TitleKey THEN tv ELSE OnDiskStr] :
      ks \in SUBSET {TitleKey, SourceFileKey, DirectoryKey}, tv \in RawValues }

\* the entry shapes of a tag specification
Bare(tag) == Str(tag)
WithFallback(tag, v) == Obj(<<tag>>, <<v>>)
WithVal(tag, v) == Obj(<<tag>>, <<Obj(<<ValKey>>, <<v>>)>>)
WithPolicy(tag, v, w) == Obj(<<tag>>, <<Obj(<<ValKey, WriteKey>>, <<v, w>>)>>)

TitleEntries ==
  {Bare(TitleKey)}
    \cup {WithFallback(TitleKey, v) : v \in {FallbackStr, Null, Num(0)}}
    \cup {WithVal(TitleKey, v) : v \in {FallbackStr, Null}}
    \cup {WithPolicy(TitleKey, v, w) : v \in {FallbackStr, Null}, w \in {Bool(TRUE), Bool(FALSE)}}

SourceFileEntries ==
  {Bare(SourceFileKey), WithFallback(SourceFileKey, FallbackStr),
   WithPolicy(SourceFileKey, FallbackStr, Bool(TRUE))}

Entries == TitleEntries \cup SourceFileEntries

\* absolute paths: the project root, a directory beside the
\* media, and media files
RootPath == << <<"r">> >>
SiblingPath == << <<"r">>, <<"e">> >>
FileX == << <<"r">>, <<"x">> >>
FileDX == << <<"r">>, <<"d">>, <<"x">> >>
FileDY == << <<"r">>, <<"d">>, <<"y">> >>

(***************************************************************************)
(* State.                                                                  *)
(***************************************************************************)
VARIABLES
  rootDir,      \* argument rootDir
  tagOptions,   \* argument tagOptions
  files,        \* the paths getFiles yields (for gatherTags alone: the path passed)
  readdirOk,    \* whether the directory listing of getFiles succeeds
  metadata,     \* per file: what exifExtract.read resolves with
  readOk,       \* per file: whether its read succeeds on a live handle
  pc,           \* per file: where its gatherTags call stands
  record,       \* per file: the value its gatherTags call returned
  missingTags,  \* helpers: the shared ledger
  ended,        \* exifExtract.end() has been called
  reads,        \* number of exifExtract.read calls issued
  pd,           \* where the processDirectories call stands
  pdError,      \* the message of the error processDirectories threw
  result,       \* the list processDirectories returned
  tagWrites,    \* the exiftool.write calls issued: <<file, tag, value>>
  opts,         \* the options object passed to extractMetadataToJsonFile
  unwritable,   \* the configured paths whose parent directory is not writable
  accessPending,\* the fs.access calls of checkPathPermisions not yet called back
  em,           \* where the extractMetadataToJsonFile call stands
  emError,      \* the message of the error that call threw
  outFiles,     \* the paths of the files written by extractMetadataToJsonFile
  uncaught,     \* an exception was thrown outside every caller (process exit)
  run,          \* which run of the process this is: 1, then 2
  tree,         \* the entries of the directory getFiles is called on
  extensions,   \* the extensions getFiles is called with
  filesList,    \* the list getFiles resolved with
  gf            \* where the getFiles call stands

vars == <<rootDir, tagOptions, files, readdirOk, metadata, readOk, pc, record,
          missingTags, ended, reads, pd, pdError, result, tagWrites, opts,
          unwritable, accessPending, em, emError, outFiles, uncaught, run,
          tree, extensions, filesList, gf>>

inputs == <<rootDir, tagOptions, files, readdirOk, metadata, readOk>>

\* the state of a getFiles call on a directory tree
listing == <<tree, extensions, filesList, gf>>

\* no directory tree: the specification takes the list of files as given
NoListing == tree = <<>> /\ extensions = <<>> /\ filesList = <<>> /\ gf = "idle"

\* the state of the extractMetadataToJsonFile call around the batch
host == <<opts, unwritable, accessPending, em, emError, outFiles, uncaught, run>>

Tasks == 1..Len(files)

\* the state of module load, before any call
Loaded ==
  /\ pc = [i \in Tasks |-> "idle"]
  /\ record = [i \in Tasks |-> Undefined]
  /\ missingTags = EmptyObject
  /\ ended = FALSE
  /\ reads = 0
  /\ pd = "idle"
  /\ pdError = ""
  /\ result = <<>>
  /\ tagWrites = {}
  /\ accessPending = {}
  /\ em = "idle"
  /\ emError = ""
  /\ outFiles = {}
  /\ uncaught = FALSE
  /\ run = 1

(***************************************************************************)
(* gatherTags(absFilePath, rootDir, tagOptions), one call per file i.      *)
(***************************************************************************)
\* lines 17-21: the call runs to its first await, the read is issued
gatherTags(i) ==
  /\ pd = "idle"
  /\ pc[i] = "idle"
  /\ pc' = [pc EXCEPT ![i] = "reading"]
  /\ reads' = reads + 1
  /\ UNCHANGED <<inputs, host, listing, tagWrites, record, missingTags, ended, pd, pdError, result>>

\* lines 21-68: the read resolves; the rest of the try block runs without
\* suspension.  A TypeError in the loop enters the catch block, which calls
\* exifExtract.end() (line 71) and awaits it.
ReadResolve(i) ==
  /\ pc[i] = "reading"
  /\ readOk[i]
  /\ LET r == Reconcile(metadata[i], files[i], rootDir, tagOptions, missingTags)
     IN /\ missingTags' = r.ledger
        /\ tagWrites' = tagWrites \cup r.writes
        /\ IF r.threw
           THEN /\ pc' = [pc EXCEPT ![i] = "ending"]
                /\ ended' = TRUE
                /\ UNCHANGED record
           ELSE /\ pc' = [pc EXCEPT ![i] = "fulfilled"]
                /\ record' = [record EXCEPT ![i] = r.rec]
                /\ UNCHANGED ended
  /\ UNCHANGED <<inputs, host, listing, reads, pd, pdError, result>>

\* lines 21, 69-71: the read rejects, because the file cannot be read or
\* because the shared handle was ended while the read was pending; the catch
\* block calls exifExtract.end() and awaits it
ReadReject(i) ==
  /\ pc[i] = "reading"
  /\ ~readOk[i] \/ ended
  /\ pc' = [pc EXCEPT ![i] = "ending"]
  /\ ended' = TRUE
  /\ UNCHANGED <<inputs, host, listing, tagWrites, record, missingTags, reads, pd, pdError, result>>

\* lines 71-72: end() resolves and the call throws
EndResolve(i) ==
  /\ pc[i] = "ending"
  /\ pc' = [pc EXCEPT ![i] = "rejected"]
  /\ UNCHANGED <<inputs, host, listing, tagWrites, record, missingTags, ended, reads, pd, pdError, result>>

(***************************************************************************)
(* processDirectories(dir, rootDir, tagOptions, extensions).               *)
(***************************************************************************)
NoMediaFiles == "No media files found"
ReadDirError == "Error reading directory"

\* the call without the check of lines 96-98
processDirectories_NoEmptyCheck ==
  /\ pd = "idle"
  /\ \A i \in Tasks : pc[i] = "idle"
  /\ IF ~readdirOk
     THEN /\ pd' = "thrown"
          /\ pdError' = ReadDirError
          /\ UNCHANGED <<pc, reads>>
     ELSE /\ pd' = "waiting"
          /\ pc' = [i \in Tasks |-> "reading"]
          /\ reads' = reads + Len(files)
          /\ UNCHANGED pdError
  /\ UNCHANGED <<inputs, host, listing, tagWrites, record, missingTags, ended, result>>

\* lines 94-101: getFiles is awaited; an empty list throws; otherwise
\* files.map starts every gatherTags call, each up to its read
processDirectories ==
  /\ pd = "idle"
  /\ \A i \in Tasks : pc[i] = "idle"
  /\ IF ~readdirOk
     THEN /\ pd' = "thrown"
          /\ pdError' = ReadDirError
          /\ UNCHANGED <<pc, reads>>
     ELSE IF Len(files) = 0
     THEN /\ pd' = "thrown"
          /\ pdError' = NoMediaFiles
          /\ UNCHANGED <<pc, reads>>
     ELSE /\ pd' = "waiting"
          /\ pc' = [i \in Tasks |-> "reading"]
          /\ reads' = reads + Len(files)
          /\ UNCHANGED pdError
  /\ UNCHANGED <<inputs, host, listing, tagWrites, record, missingTags, ended, result>>

\* what Promise.allSettled resolves with: one outcome object per promise
Settled(i) ==
  IF pc[i] = "fulfilled"
  THEN [status |-> "fulfilled", value |-> record[i]]
  ELSE [status |-> "rejected", value |-> Undefined]

\* Array.prototype.filter(Boolean): an outcome object is always truthy
FilterBoolean(list) == SelectSeq(list, LAMBDA o : o.status \in {"fulfilled", "rejected"})

\* the call resuming as soon as one promise has settled (Promise.race)
AllSettled_AnySettled ==
  /\ pd = "waiting"
  /\ \E i \in Tasks : pc[i] \in {"fulfilled", "rejected"}
  /\ LET metadataList == [i \in Tasks |-> Settled(i)]
         kept == FilterBoolean(metadataList)
     IN result' = [j \in 1..Len(kept) |-> kept[j].value]
  /\ pd' = "returned"
  /\ UNCHANGED <<inputs, host, listing, tagWrites, pc, record, missingTags, ended, reads, pdError>>

\* lines 103-105: every promise has settled; the list is filtered and mapped
AllSettled ==
  /\ pd = "waiting"
  /\ \A i \in Tasks : pc[i] \in {"fulfilled", "rejected"}
  /\ LET metadataList == [i \in Tasks |-> Settled(i)]
         kept == FilterBoolean(metadataList)
     IN result' = [j \in 1..Len(kept) |-> kept[j].value]
  /\ pd' = "returned"
  /\ UNCHANGED <<inputs, host, listing, tagWrites, pc, record, missingTags, ended, reads, pdError>>

(***************************************************************************)
(* Specifications.                                                         *)
(***************************************************************************)
\* gatherTags called on one file, over every raw metadata and specification
InitGather ==
  /\ rootDir \in {RootPath, SiblingPath}
  /\ tagOptions \in SeqsUpTo(Entries, MaxSpecLen)
  /\ files \in {<<FileDX>>}
  /\ readdirOk = TRUE
  /\ metadata \in [{1} -> RawMetadata]
  /\ readOk \in [{1} -> BOOLEAN]
  /\ opts = Undefined
  /\ unwritable = {}
  /\ NoListing
  /\ Loaded

NextGather ==
  \/ \E i \in Tasks : gatherTags(i)
  \/ \E i \in Tasks : ReadResolve(i)
  \/ \E i \in Tasks : ReadReject(i)
  \/ \E i \in Tasks : EndResolve(i)

SpecGather == InitGather /\ [][NextGather]_vars

\* the files of the tree in listing order, and every sub-listing of them
Tree == <<FileX, FileDX, FileDY>>
RECURSIVE SubListings(_)
SubListings(l) ==
  IF Len(l) = 0 THEN {<<>>}
  ELSE LET rest == SubListings(Tail(l))
       IN rest \cup {<<l[1]>> \o t : t \in rest}

BatchMetadata == {EmptyObject, [k \in {TitleKey} |-> OnDiskStr]}

BatchSpecs ==
  { <<>>,
    <<Bare(TitleKey)>>,
    <<WithPolicy(TitleKey, FallbackStr, Bool(TRUE))>>,
    <<WithPolicy(TitleKey, FallbackStr, Bool(TRUE)), WithFallback(TitleKey, Null)>>,
    <<WithPolicy(TitleKey, FallbackStr, Bool(TRUE)), WithPolicy(CreditKey, Null, Bool(TRUE))>> }

\* a batch run of processDirectories over up to MaxFiles files
Init ==
  /\ rootDir = RootPath
  /\ tagOptions \in BatchSpecs
  /\ files \in {l \in SubListings(Tree) : Len(l) <= MaxFiles}
  /\ readdirOk \in BOOLEAN
  /\ metadata \in [Tasks -> BatchMetadata]
  /\ readOk \in [Tasks -> BOOLEAN]
  /\ opts = Undefined
  /\ unwritable = {}
  /\ NoListing
  /\ Loaded

Next ==
  \/ processDirectories
  \/ \E i \in Tasks : ReadResolve(i)
  \/ \E i \in Tasks : ReadReject(i)
  \/ \E i \in Tasks : EndResolve(i)
  \/ AllSettled

Spec == Init /\ [][Next]_vars

\* raw metadata with the Title tag absent or holding any raw value
TitleMetadata == {EmptyObject} \cup {[k \in {TitleKey} |-> v] : v \in RawValues}

\* gatherTags called twice on the same file, the same raw metadata and the
\* same specification
InitTwice ==
  /\ rootDir = RootPath
  /\ tagOptions \in SeqsUpTo(TitleEntries, MaxSpecLen)
  /\ files = <<FileDX, FileDX>>
  /\ readdirOk = TRUE
  /\ metadata \in {[i \in {1, 2} |-> m] : m \in TitleMetadata}
  /\ readOk \in [{1, 2} -> BOOLEAN]
  /\ opts = Undefined
  /\ unwritable = {}
  /\ NoListing
  /\ Loaded

SpecTwice == InitTwice /\ [][NextGather]_vars

\* entries that are neither a string nor a single-key object, which
\* validateOptions (lines 218-224) lets through: it tests Array.isArray only
MalformedEntries ==
  {Num(5), Null, Arr(<<>>), Obj(<<>>, <<>>),
   Obj(<<TitleKey, CreditKey>>, <<FallbackStr, FallbackStr>>)}

\* gatherTags called on one file with a specification that may hold
\* malformed entries
InitShapes ==
  /\ rootDir = RootPath
  /\ tagOptions \in SeqsUpTo(MalformedEntries \cup {Bare(TitleKey), WithFallback(TitleKey, FallbackStr)},
                              MaxSpecLen)
  /\ files = <<FileDX>>
  /\ readdirOk = TRUE
  /\ metadata \in [{1} -> BatchMetadata]
  /\ readOk \in [{1} -> BOOLEAN]
  /\ opts = Undefined
  /\ unwritable = {}
  /\ NoListing
  /\ Loaded

SpecShapes == InitShapes /\ [][NextGather]_vars

(***************************************************************************)
(* extractMetadataToJsonFile(opts) and extractMetadata(opts), with         *)
(* validateOptions and checkPathPermisions.  An option that is absent      *)
(* reads as undefined; a path option is a string.                          *)
(***************************************************************************)
\* a path string cut at its slashes
RECURSIVE Split(_, _, _)
Split(cs, cur, acc) ==
  IF Len(cs) = 0 THEN (IF Len(cur) = 0 THEN acc ELSE Append(acc, cur))
  ELSE IF cs[1] = "/"
  THEN Split(Tail(cs), <<>>, IF Len(cur) = 0 THEN acc ELSE Append(acc, cur))
  ELSE Split(Tail(cs), Append(cur, cs[1]), acc)

\* the string of an absolute path
PathStr(p) == Str(<<"/">> \o JoinPath(p))

\* path.isAbsolute
isAbsolute(cs) == Len(cs) > 0 /\ cs[1] = "/"

\* path.resolve(rootDir, outputPath), rootDir being absolute
Resolve(root, cs) ==
  IF isAbsolute(cs) THEN Split(cs, <<>>, <<>>)
  ELSE Split(root, <<>>, <<>>) \o Split(cs, <<>>, <<>>)

RequiredMissing == "You must pass an options object minimally containing"
MustBeString == "must be a string"
TagOptionsNotArray == "tagOptions must be an array"
ValidExtensionsNotArray == "validExtensions must be an array"
WriteFailed == "EACCES"
ValidationErrors ==
  {RequiredMissing, MustBeString, TagOptionsNotArray, ValidExtensionsNotArray}

\* checkPathPermisions, its synchronous part: the fs.access call it issues,
\* on the parent directory of the path, for the option named keyName
checkPathPermisions(keyName, filePath) ==
  [key |-> keyName, dir |-> Dirname(filePath)]

\* validateOptions(opts): the error it throws ("" when it returns) and the
\* fs.access calls issued before it throws or returns.  The callbacks of
\* those calls run later, outside validateOptions.
validateOptions(o) ==
  IF ~Truthy(o.rootDir) \/ ~Truthy(o.srcDir) \/ ~Truthy(o.outputPath)
  THEN [error |-> RequiredMissing, accesses |-> {}]
  ELSE IF o.rootDir.type # "string"
  THEN [error |-> MustBeString, accesses |-> {}]
  ELSE LET a1 == {checkPathPermisions("rootDir", Split(o.rootDir.chars, <<>>, <<>>))}
       IN IF o.srcDir.type # "string"
          THEN [error |-> MustBeString, accesses |-> a1]
          ELSE LET a2 == a1 \cup {checkPathPermisions("srcDir", Split(o.srcDir.chars, <<>>, <<>>))}
               IN IF o.outputPath.type # "string"
                  THEN [error |-> MustBeString, accesses |-> a2]
                  ELSE LET a3 == a2 \cup {checkPathPermisions("outputPath",
                                            Resolve(o.rootDir.chars, o.outputPath.chars))}
                       IN IF Truthy(o.tagOptions) /\ o.tagOptions.type # "array"
                          THEN [error |-> TagOptionsNotArray, accesses |-> a3]
                          ELSE IF Truthy(o.validExtensions) /\ o.validExtensions.type # "array"
                          THEN [error |-> ValidExtensionsNotArray, accesses |-> a3]
                          ELSE [error |-> "", accesses |-> a3]

\* the tagOptions of mergeObjects(defaults, opts) as gatherTags takes them:
\* the default [] when absent; a value without a length is not iterated
MergedTagOptions(o) ==
  IF o.tagOptions.type = "array" THEN o.tagOptions.elems ELSE <<>>

\* part_001 lines 232-236: where the primary output is written
OutputFile(o) == Resolve(o.rootDir.chars, o.outputPath.chars)

MissingTagsName ==
  <<"m", "i", "s", "s", "i", "n", "g", "-", "t", "a", "g", "s", ".", "j", "s", "o", "n">>

\* values of now.getTime()
Timestamps == {7, 12}

\* the call: mergeObjects, then extractMetadata up to its first await, which
\* runs validateOptions and calls processDirectories (the directory listing
\* of getFiles is issued)
extractMetadataToJsonFile ==
  /\ em = "idle"
  /\ LET v == validateOptions(opts)
     IN /\ accessPending' = v.accesses
        /\ IF v.error # ""
           THEN em' = "thrown" /\ emError' = v.error
           ELSE em' = "extracting" /\ UNCHANGED emError
  /\ UNCHANGED <<inputs, listing, opts, unwritable, outFiles, uncaught, pc, record,
                 missingTags, ended, reads, pd, pdError, result, tagWrites, run>>

\* logic.mjs lines 155-167: the callback of one fs.access call; on an error
\* it throws, with no caller left to catch: the process exits
AccessCallback ==
  /\ ~uncaught
  /\ \E a \in accessPending :
       /\ accessPending' = accessPending \ {a}
       /\ uncaught' = (a.dir \in unwritable)
  /\ UNCHANGED <<inputs, listing, opts, unwritable, em, emError, outFiles, pc, record,
                 missingTags, ended, reads, pd, pdError, result, tagWrites, run>>

\* part_001 lines 193-203: processDirectories has returned; the handle is
\* ended and the list returned
extractMetadata_Return ==
  /\ ~uncaught
  /\ em = "extracting"
  /\ pd = "returned"
  /\ ended' = TRUE
  /\ em' = "extracted"
  /\ UNCHANGED <<inputs, listing, opts, unwritable, accessPending, emError, outFiles,
                 uncaught, pc, record, missingTags, reads, pd, pdError, result,
                 tagWrites, run>>

\* part_001 lines 204-208: processDirectories has thrown; the handle is
\* ended and the error rethrown
extractMetadata_Catch ==
  /\ ~uncaught
  /\ em = "extracting"
  /\ pd = "thrown"
  /\ ended' = TRUE
  /\ em' = "thrown"
  /\ emError' = pdError
  /\ UNCHANGED <<inputs, listing, opts, unwritable, accessPending, outFiles, uncaught,
                 pc, record, missingTags, reads, pd, pdError, result, tagWrites, run>>

\* the primary output written and the missing-tags file written whatever
\* the ledger holds
WriteOutput_AlwaysLogs ==
  /\ ~uncaught
  /\ em = "extracted"
  /\ IF Dirname(OutputFile(opts)) \in unwritable
     THEN em' = "thrown" /\ emError' = WriteFailed /\ UNCHANGED outFiles
     ELSE /\ outFiles' = outFiles \cup {OutputFile(opts)}
          /\ em' = "logging"
          /\ UNCHANGED emError
  /\ UNCHANGED <<inputs, listing, opts, unwritable, accessPending, uncaught, pc, record,
                 missingTags, ended, reads, pd, pdError, result, tagWrites, run>>

\* part_001 lines 228-238: the list is written to the output path; the
\* missing-tags file follows only if the ledger has a key
WriteOutput ==
  /\ ~uncaught
  /\ em = "extracted"
  /\ IF Dirname(OutputFile(opts)) \in unwritable
     THEN em' = "thrown" /\ emError' = WriteFailed /\ UNCHANGED outFiles
     ELSE /\ outFiles' = outFiles \cup {OutputFile(opts)}
          /\ em' = IF DOMAIN missingTags # {} THEN "logging" ELSE "done"
          /\ UNCHANGED emError
  /\ UNCHANGED <<inputs, listing, opts, unwritable, accessPending, uncaught, pc, record,
                 missingTags, ended, reads, pd, pdError, result, tagWrites, run>>

\* part_001 lines 239-252 and writeToFile: the ledger is written beside the
\* output, its name prefixed with the time
writeToFile ==
  /\ ~uncaught
  /\ em = "logging"
  /\ \E now \in Timestamps :
       outFiles' = outFiles \cup
         {Append(Dirname(OutputFile(opts)), JsString(Num(now)) \o <<"-">> \o MissingTagsName)}
  /\ em' = "done"
  /\ UNCHANGED <<inputs, listing, opts, unwritable, accessPending, emError, uncaught, pc,
                 record, missingTags, ended, reads, pd, pdError, result, tagWrites, run>>

\* the options of a well-formed call
BaseOpts ==
  [rootDir |-> PathStr(RootPath), srcDir |-> PathStr(RootPath),
   outputPath |-> Str(<<"o", "/", "m">>),
   tagOptions |-> Undefined, validExtensions |-> Undefined]

ExtractSpecs ==
  {<<>>, <<Bare(TitleKey)>>, <<WithPolicy(TitleKey, FallbackStr, Bool(TRUE))>>}

\* well-formed options, and options with one thing wrong
OptsCases ==
  {[BaseOpts EXCEPT !.tagOptions = Arr(sp)] : sp \in ExtractSpecs}
    \cup {BaseOpts,
          [BaseOpts EXCEPT !.outputPath = Str(<<"/", "q", "/", "m">>)],
          [BaseOpts EXCEPT !.rootDir = Undefined],
          [BaseOpts EXCEPT !.rootDir = Num(5)],
          [BaseOpts EXCEPT !.srcDir = Undefined],
          [BaseOpts EXCEPT !.outputPath = Undefined],
          [BaseOpts EXCEPT !.tagOptions = Str1("t")],
          [BaseOpts EXCEPT !.tagOptions = Num(0)],
          [BaseOpts EXCEPT !.validExtensions = Str1("j")]}

\* the parent directories of the configured paths
ParentDirs(o) ==
  {Dirname(Split(v.chars, <<>>, <<>>)) : v \in {x \in {o.rootDir, o.srcDir} : x.type = "string"}}
    \cup (IF o.rootDir.type = "string" /\ o.outputPath.type = "string"
          THEN {Dirname(OutputFile(o))} ELSE {})

\* a call of extractMetadataToJsonFile; at most one directory is not writable
InitExtract ==
  /\ opts \in OptsCases
  /\ unwritable \in {{}} \cup {{d} : d \in ParentDirs(opts)}
  /\ rootDir = RootPath
  /\ tagOptions = MergedTagOptions(opts)
  /\ files \in {l \in SubListings(Tree) : Len(l) <= MaxFiles}
  /\ readdirOk \in BOOLEAN
  /\ metadata \in [Tasks -> BatchMetadata]
  /\ readOk \in [Tasks -> BOOLEAN]
  /\ NoListing
  /\ Loaded

NextExtract ==
  \/ extractMetadataToJsonFile
  \/ AccessCallback
  \/ ~uncaught /\ em = "extracting" /\ processDirectories
  \/ \E i \in Tasks : ~uncaught /\ ReadResolve(i)
  \/ \E i \in Tasks : ~uncaught /\ ReadReject(i)
  \/ \E i \in Tasks : ~uncaught /\ EndResolve(i)
  \/ ~uncaught /\ AllSettled
  \/ extractMetadata_Return
  \/ extractMetadata_Catch
  \/ WriteOutput
  \/ writeToFile

SpecExtract == InitExtract /\ [][NextExtract]_vars

\* the arguments and environment of one run of SpecRuns: well-formed
\* options, one file, every directory writable
RunOpts == {[BaseOpts EXCEPT !.tagOptions = Arr(sp)] : sp \in ExtractSpecs}
RunFiles == {l \in SubListings(<<FileX, FileDY>>) : Len(l) <= MaxRunFiles}

\* the caller starts a second, independent run in the same process once the
\* first has finished: new arguments, new files, new promises.  The module
\* state is what the first run left: the ledger (logic.mjs line 410) and the
\* singleton handle stay as they are, and so do the files written.
NewRun ==
  /\ run = 1
  /\ em \in {"done", "thrown"}
  /\ accessPending = {}
  /\ ~uncaught
  /\ run' = 2
  /\ opts' \in RunOpts
  /\ tagOptions' = MergedTagOptions(opts')
  /\ files' \in RunFiles
  /\ readdirOk' \in BOOLEAN
  /\ metadata' \in [1..Len(files') -> BatchMetadata]
  /\ readOk' = [i \in 1..Len(files') |-> TRUE]
  /\ pc' = [i \in 1..Len(files') |-> "idle"]
  /\ record' = [i \in 1..Len(files') |-> Undefined]
  /\ reads' = 0
  /\ pd' = "idle"
  /\ pdError' = ""
  /\ result' = <<>>
  /\ em' = "idle"
  /\ emError' = ""
  /\ UNCHANGED <<rootDir, unwritable, accessPending, outFiles, uncaught,
                 missingTags, ended, tagWrites, listing>>

\* two runs of extractMetadataToJsonFile, one after the other
InitRuns ==
  /\ opts \in RunOpts
  /\ unwritable = {}
  /\ rootDir = RootPath
  /\ tagOptions = MergedTagOptions(opts)
  /\ files \in RunFiles
  /\ readdirOk \in BOOLEAN
  /\ metadata \in [Tasks -> BatchMetadata]
  /\ readOk = [i \in Tasks |-> TRUE]
  /\ NoListing
  /\ Loaded

NextRuns ==
  \/ extractMetadataToJsonFile
  \/ AccessCallback
  \/ em = "extracting" /\ processDirectories
  \/ \E i \in Tasks : ReadResolve(i)
  \/ \E i \in Tasks : ReadReject(i)
  \/ \E i \in Tasks : EndResolve(i)
  \/ AllSettled
  \/ extractMetadata_Return
  \/ extractMetadata_Catch
  \/ WriteOutput
  \/ writeToFile
  \/ NewRun

SpecRuns == InitRuns /\ [][NextRuns]_vars

\* raw metadata with a parent group tag and its flattened child, each
\* reported by the metadata source or not
GroupMetadata ==
  { [k \in ks |-> IF k = CreatorContactInfoKey
                  THEN Obj(<<CiUrlWorkKey>>, <<OnDiskStr>>) ELSE cv] :
      ks \in SUBSET {CreatorContactInfoKey, CreatorWorkURLKey},
      cv \in {OnDiskStr, Str(<<>>), Null} }

GroupEntries ==
  UNION { {Bare(t), WithFallback(t, FallbackStr), WithPolicy(t, FallbackStr, Bool(TRUE))} :
            t \in {CreatorContactInfoKey, CreatorWorkURLKey} }

\* gatherTags called on one file whose metadata has group and flattened tags
InitGroups ==
  /\ rootDir = RootPath
  /\ tagOptions \in SeqsUpTo(GroupEntries, MaxSpecLen)
  /\ files = <<FileDX>>
  /\ readdirOk = TRUE
  /\ metadata \in [{1} -> GroupMetadata]
  /\ readOk \in [{1} -> BOOLEAN]
  /\ opts = Undefined
  /\ unwritable = {}
  /\ NoListing
  /\ Loaded

SpecGroups == InitGroups /\ [][NextGather]_vars

\* fallback payloads of every type: string, number, boolean, array, nested
\* object without a 'val' property, null
PayloadValues ==
  {FallbackStr, Num(0), Num(5), Bool(TRUE), Bool(FALSE), Arr(<<Str1("a")>>),
   Obj(<<CreditKey>>, <<FallbackStr>>), Null}

\* values of the 'write' property: booleans, and non-booleans of either
\* truthiness
WriteValues == {Bool(TRUE), Bool(FALSE), Num(1), Num(0), Str1("y"), Null}

PayloadEntries ==
  {Bare(TitleKey), WithVal(TitleKey, FallbackStr)}
    \cup {WithFallback(TitleKey, v) : v \in PayloadValues}
    \cup {WithPolicy(TitleKey, FallbackStr, w) : w \in WriteValues}

\* gatherTags called on one file, over fallbacks of every type and every
\* kind of write value
InitPayload ==
  /\ rootDir = RootPath
  /\ tagOptions \in SeqsUpTo(PayloadEntries, MaxSpecLen)
  /\ files = <<FileDX>>
  /\ readdirOk = TRUE
  /\ metadata \in [{1} -> TitleMetadata]
  /\ readOk \in [{1} -> BOOLEAN]
  /\ opts = Undefined
  /\ unwritable = {}
  /\ NoListing
  /\ Loaded

SpecPayload == InitPayload /\ [][NextGather]_vars

(***************************************************************************)
(* getFiles(dir, extensions): logic.mjs lines 283-308.  A directory is the *)
(* sequence of its entries in readdir order; an entry is a file or a       *)
(* directory with its own entries.                                         *)
(***************************************************************************)
File(name) == [name |-> name, isDirectory |-> FALSE, entries |-> <<>>]
Dir(name, es) == [name |-> name, isDirectory |-> TRUE, entries |-> es]

UpperCase == <<"A", "B", "C", "D", "E", "F", "G", "H", "I", "J", "K", "L", "M",
               "N", "O", "P", "Q", "R", "S", "T", "U", "V", "W", "X", "Y", "Z">>
LowerCase == <<"a", "b", "c", "d", "e", "f", "g", "h", "i", "j", "k", "l", "m",
               "n", "o", "p", "q", "r", "s", "t", "u", "v", "w", "x", "y", "z">>

\* String.prototype.toLowerCase
toLowerCase(cs) ==
  [n \in 1..Len(cs) |->
     IF \E k \in 1..26 : UpperCase[k] = cs[n]
     THEN LowerCase[CHOOSE k \in 1..26 : UpperCase[k] = cs[n]]
     ELSE cs[n]]

\* path.extname of a name: from its last dot on, empty when there is no dot
\* or the only dot is the first character
extname(cs) ==
  LET dots == {n \in 1..Len(cs) : cs[n] = "."}
  IN IF dots = {} THEN <<>>
     ELSE LET last == CHOOSE n \in dots : \A k \in dots : k <= n
          IN IF last = 1 THEN <<>> ELSE SubSeq(cs, last, Len(cs))

\* extensions.includes(x)
includes(list, x) == \E n \in 1..Len(list) : list[n] = x

\* lines 286-302: the loop over the entries of dir, appending to filesList
RECURSIVE getFilesLoop(_, _, _, _)
getFilesLoop(dir, es, exts, acc) ==
  IF Len(es) = 0 THEN acc
  ELSE
    LET file == es[1]
        filePath == Append(dir, file.name)
        next ==
          IF Len(file.name) > 0 /\ file.name[1] = "." THEN acc
          ELSE IF file.isDirectory THEN getFilesLoop(filePath, file.entries, exts, acc)
          ELSE IF includes(exts, toLowerCase(extname(file.name))) THEN Append(acc, filePath)
          ELSE acc
    IN getFilesLoop(dir, Tail(es), exts, next)

\* the call: the list for the tree, or the error of the catch block
getFiles ==
  /\ gf = "idle"
  /\ IF readdirOk
     THEN /\ filesList' = getFilesLoop(rootDir, tree, extensions, <<>>)
          /\ gf' = "returned"
     ELSE /\ gf' = "thrown"
          /\ UNCHANGED filesList
  /\ UNCHANGED <<inputs, host, tree, extensions, pc, record, missingTags, ended,
                 reads, pd, pdError, result, tagWrites>>

Jpg == <<".", "j", "p", "g">>
JPG == <<".", "J", "P", "G">>
Png == <<".", "p", "n", "g">>

\* file names: extensions in several casings, a hidden file, no extension
FileNames ==
  {<<"a">> \o Jpg, <<"b">> \o JPG, <<"c">> \o Png, <<".", "h">> \o Jpg, <<"d">>}
\* directory names, one hidden
DirNames == {<<"s">>, <<".", "t">>}

Leaves == {File(n) : n \in FileNames}
Dirs1 == {Dir(n, es) : n \in DirNames, es \in SeqsUpTo(Leaves, 1)}
Dirs2 == {Dir(n, es) : n \in DirNames, es \in SeqsUpTo(Leaves \cup Dirs1, 1)}

\* directory trees of depth up to three with up to MaxEntries entries, the
\* names within a directory distinct
Trees ==
  {t \in SeqsUpTo(Leaves \cup Dirs2, MaxEntries) :
     \A n, k \in 1..Len(t) : n # k => t[n].name # t[k].name}

ExtensionLists == {<<>>, <<Jpg>>, <<JPG>>, <<Jpg, Png>>, <<JPG, Jpg>>}

\* getFiles called on a tree
InitListing ==
  /\ rootDir = RootPath
  /\ tree \in Trees
  /\ extensions \in ExtensionLists
  /\ readdirOk \in BOOLEAN
  /\ filesList = <<>>
  /\ gf = "idle"
  /\ tagOptions = <<>>
  /\ files = <<>>
  /\ metadata = <<>>
  /\ readOk = <<>>
  /\ opts = Undefined
  /\ unwritable = {}
  /\ Loaded

NextListing == getFiles

SpecListing == InitListing /\ [][NextListing]_vars

(***************************************************************************)
(* Vocabulary of the properties.                                           *)
(***************************************************************************)
PathKeys == {SourceFileKey, DirectoryKey}

\* the call for file i returned a record
Returned(i) == pc[i] = "fulfilled"

\* the read of file i resolved and the reconciliation has run
Reconciled(i) == readOk[i] /\ pc[i] \in {"fulfilled", "ending", "rejected"}

\* a string with at least one non-whitespace character
NonBlankString(v) ==
  v.type = "string" /\ \E n \in 1..Len(v.chars) : v.chars[n] \notin Whitespace

\* absent, null, or a string of whitespace only (the empty string included)
EmptyOnFile(v) ==
  \/ v.type \in {"undefined", "null"}
  \/ v.type = "string" /\ \A n \in 1..Len(v.chars) : v.chars[n] \in Whitespace

Positions == 1..Len(tagOptions)
IsBare(e) == e.type = "string"
IsSingleKey(e) == e.type = "object" /\ Len(e.keys) = 1
TagOf(e) == IF IsBare(e) THEN e.chars ELSE e.keys[1]
\* {tag: v} where v has no 'val' property
IsPlainFallback(e) ==
  IsSingleKey(e) /\ ~(e.vals[1].type = "object" /\ \E n \in 1..Len(e.vals[1].keys) : e.vals[1].keys[n] = ValKey)
\* {tag: {val: v, write: true}}
IsWritePolicy(e) ==
  /\ IsSingleKey(e)
  /\ e.vals[1].type = "object"
  /\ e.vals[1].keys = <<ValKey, WriteKey>>
  /\ e.vals[1].vals[2] = Bool(TRUE)
\* no other entry of the specification names the tag of entry j
OnlyEntryFor(j) ==
  \A k \in Positions : k # j => TagOf(tagOptions[k]) # TagOf(tagOptions[j])
\* every other entry that names the tag of entry j is a bare request
OnlyBareBeside(j) ==
  \A k \in Positions :
    (k # j /\ TagOf(tagOptions[k]) = TagOf(tagOptions[j])) => IsBare(tagOptions[k])
\* every later entry that names the tag of entry j is a bare request
OnlyBareAfter(j) ==
  \A k \in Positions :
    (k > j /\ TagOf(tagOptions[k]) = TagOf(tagOptions[j])) => IsBare(tagOptions[k])

(***************************************************************************)
(* Properties of gatherTags (specification SpecGather).                    *)
(***************************************************************************)

\* C1 (as stated): for every spec entry of any shape, if raw[tag] is a string
\* with a non-whitespace character, the returned record has
\* record[tag] = raw[tag].
C1_OnDiskValueWins ==
  \A i \in Tasks : Returned(i) =>
    \A j \in Positions :
      LET tag == TagOf(tagOptions[j])
          raw == Get(metadata[i], tag)
      IN NonBlankString(raw) => Get(record[i], tag) = raw

\* C1 (amended): for every spec entry of any shape whose tag is neither
\* SourceFile nor Directory, if raw[tag] is a string with a non-whitespace
\* character, the returned record has record[tag] = raw[tag], whatever the
\* fallback and the write flag.
C1_OnDiskValueWinsExceptPathKeys ==
  \A i \in Tasks : Returned(i) =>
    \A j \in Positions :
      LET tag == TagOf(tagOptions[j])
          raw == Get(metadata[i], tag)
      IN (NonBlankString(raw) /\ tag \notin PathKeys) => Get(record[i], tag) = raw

\* C1 witness: a record returned for a write-back entry with a fallback,
\* carrying the value found on the file
C1_Witness ==
  \E i \in Tasks :
    /\ Returned(i)
    /\ \E j \in Positions : tagOptions[j] = WithPolicy(TitleKey, FallbackStr, Bool(TRUE))
    /\ Get(metadata[i], TitleKey) = OnDiskStr
    /\ Get(record[i], TitleKey) = OnDiskStr

\* C2 (as stated): for every bare entry whose tag is absent, null or
\* whitespace-only on the file, the returned record does not have the tag
\* as a key.
C2_BareMissingStripped ==
  \A i \in Tasks : Returned(i) =>
    \A j \in Positions :
      LET tag == TagOf(tagOptions[j])
      IN (IsBare(tagOptions[j]) /\ EmptyOnFile(Get(metadata[i], tag)))
           => tag \notin DOMAIN record[i]

\* C2 (amended): for every bare entry whose tag is absent, null or
\* whitespace-only on the file, is neither SourceFile nor Directory, and is
\* named by no other entry than bare ones, the returned record does not have
\* the tag as a key.
C2_BareMissingStrippedUnlessOverridden ==
  \A i \in Tasks : Returned(i) =>
    \A j \in Positions :
      LET tag == TagOf(tagOptions[j])
      IN (/\ IsBare(tagOptions[j])
          /\ EmptyOnFile(Get(metadata[i], tag))
          /\ tag \notin PathKeys
          /\ OnlyBareBeside(j))
           => tag \notin DOMAIN record[i]

\* C2 witness: a record returned for a bare Title request on a file whose
\* Title is whitespace only, without the key
C2_Witness ==
  \E i \in Tasks :
    /\ Returned(i)
    /\ tagOptions = <<Bare(TitleKey)>>
    /\ Get(metadata[i], TitleKey) = Str(<<"\t", " ">>)
    /\ TitleKey \notin DOMAIN record[i]

\* C3: for every entry {tag: v} where v has no 'val' property and tag is
\* absent from the raw metadata, the call returns a record holding tag: v and
\* the ledger has no entry for the tag.  Stated for the tags other than
\* SourceFile and Directory that no other entry names.
C3_FallbackPassedThrough ==
  \A i \in Tasks : Reconciled(i) =>
    \A j \in Positions :
      LET e == tagOptions[j]
          tag == TagOf(e)
      IN (/\ IsPlainFallback(e)
          /\ tag \notin DOMAIN metadata[i]
          /\ tag \notin PathKeys
          /\ OnlyEntryFor(j))
           => /\ Returned(i)
              /\ tag \in DOMAIN record[i]
              /\ record[i][tag] = e.vals[1]
              /\ tag \notin DOMAIN LedgerOf(missingTags, Basename(files[i]))

\* C4 (as stated): for every entry {tag: {val: v, write: true}} whose tag is
\* absent, null or whitespace-only on the file, the record holds tag: v and
\* the ledger holds (tag, v) under the file's name, also when v is null.
C4_WriteBackLogged ==
  \A i \in Tasks : Returned(i) =>
    \A j \in Positions :
      LET e == tagOptions[j]
          tag == TagOf(e)
          ledger == LedgerOf(missingTags, Basename(files[i]))
      IN (IsWritePolicy(e) /\ EmptyOnFile(Get(metadata[i], tag)))
           => /\ tag \in DOMAIN record[i]
              /\ record[i][tag] = e.vals[1].vals[1]
              /\ tag \in DOMAIN ledger
              /\ ledger[tag] = e.vals[1].vals[1]

\* C4 (amended): for every entry {tag: {val: v, write: true}} whose tag is
\* absent, null or whitespace-only on the file and which no later entry with
\* a fallback names, the ledger holds (tag, v) under the file's name, also
\* when v is null, and, unless the tag is SourceFile or Directory, the
\* returned record holds tag: v.
C4_WriteBackLoggedUnlessOverridden ==
  \A i \in Tasks : Returned(i) =>
    \A j \in Positions :
      LET e == tagOptions[j]
          tag == TagOf(e)
          ledger == LedgerOf(missingTags, Basename(files[i]))
      IN (IsWritePolicy(e) /\ EmptyOnFile(Get(metadata[i], tag)) /\ OnlyBareAfter(j))
           => /\ tag \in DOMAIN ledger
              /\ ledger[tag] = e.vals[1].vals[1]
              /\ tag \notin PathKeys =>
                   (tag \in DOMAIN record[i] /\ record[i][tag] = e.vals[1].vals[1])

\* C4 witness: a null fallback with write: true, recorded in the record and
\* in the ledger for a Title that is null on the file
C4_Witness ==
  \E i \in Tasks :
    /\ Returned(i)
    /\ \E j \in Positions : tagOptions[j] = WithPolicy(TitleKey, Null, Bool(TRUE))
    /\ Get(metadata[i], TitleKey) = Null
    /\ TitleKey \in DOMAIN record[i] /\ record[i][TitleKey] = Null
    /\ DOMAIN missingTags = {Basename(files[i])}
    /\ TitleKey \in DOMAIN missingTags[Basename(files[i])]
    /\ missingTags[Basename(files[i])][TitleKey] = Null

\* C5: with an empty specification the returned record has every raw tag
\* with its raw value, SourceFile and Directory being the only keys set
\* afterwards, and nothing is logged.
C5_EmptySpecPassThrough ==
  \A i \in Tasks : (Returned(i) /\ Len(tagOptions) = 0) =>
    /\ DOMAIN record[i] = DOMAIN metadata[i] \cup PathKeys
    /\ \A k \in DOMAIN metadata[i] \ PathKeys : record[i][k] = metadata[i][k]
    /\ missingTags = EmptyObject

\* C5 witness: an empty specification on a file whose Title is blank
C5_Witness ==
  \E i \in Tasks :
    /\ Returned(i)
    /\ tagOptions = <<>>
    /\ Get(metadata[i], TitleKey) = Str(<<" ">>)
    /\ Get(record[i], TitleKey) = Str(<<" ">>)

\* C6: every returned record has SourceFile and Directory, the path of the
\* file and of its directory relative to rootDir, whatever the raw metadata
\* and the specification say under these names.
C6_PathKeysReserved ==
  \A i \in Tasks : Returned(i) =>
    /\ PathKeys \subseteq DOMAIN record[i]
    /\ record[i][SourceFileKey] = Str(JoinPath(Relative(rootDir, files[i])))
    /\ record[i][DirectoryKey] = Str(JoinPath(Relative(rootDir, Dirname(files[i]))))
    /\ (rootDir = RootPath /\ files[i] = FileDX) =>
         /\ record[i][SourceFileKey] = Str(<<"d", "/", "x">>)
         /\ record[i][DirectoryKey] = Str(<<"d">>)
    /\ (rootDir = SiblingPath /\ files[i] = FileDX) =>
         /\ record[i][SourceFileKey] = Str(<<".", ".", "/", "d", "/", "x">>)
         /\ record[i][DirectoryKey] = Str(<<".", ".", "/", "d">>)

\* C6 witness: the raw SourceFile and a SourceFile fallback both replaced
C6_Witness ==
  \E i \in Tasks :
    /\ Returned(i)
    /\ SourceFileKey \in DOMAIN metadata[i]
    /\ \E j \in Positions : tagOptions[j] = WithFallback(SourceFileKey, FallbackStr)
    /\ rootDir = SiblingPath
    /\ record[i][SourceFileKey] = Str(<<".", ".", "/", "d", "/", "x">>)

\* C7: for the raw values 0, false and the empty array no fallback value is
\* put in the record and no ledger entry is recorded, whatever the entry.
C7_FalsyNotMissing ==
  \A i \in Tasks : Returned(i) =>
    \A j \in Positions :
      LET tag == TagOf(tagOptions[j])
          raw == Get(metadata[i], tag)
      IN raw \in {Num(0), Bool(FALSE), Arr(<<>>)}
           => /\ tag \in DOMAIN record[i] => record[i][tag] = raw
              /\ tag \notin DOMAIN LedgerOf(missingTags, Basename(files[i]))

(***************************************************************************)
(* Properties of processDirectories (specification Spec).                  *)
(***************************************************************************)
\* the files of the batch whose gatherTags call rejected
Failed == {i \in Tasks : pc[i] = "rejected"}

\* C8: for a batch of n files of which k fail, processDirectories returns
\* exactly n-k elements, each a defined record.
C8_FailedFilesAbsent ==
  pd = "returned" =>
    /\ Len(result) = Len(files) - Cardinality(Failed)
    /\ \A j \in 1..Len(result) : result[j] # Undefined

\* file i alone would yield its record: its read succeeds and reconciling
\* its metadata does not throw
SucceedsAlone(i) ==
  /\ readOk[i]
  /\ ~Reconcile(metadata[i], files[i], rootDir, tagOptions, EmptyObject).threw

\* C9: a file that would succeed alone never fails because a sibling of its
\* batch failed, in any interleaving.
C9_SiblingsUnaffected ==
  \A i \in Tasks : SucceedsAlone(i) => pc[i] \notin {"ending", "rejected"}

\* C10: when the walker yields no file, processDirectories throws 'No media
\* files found' up front: no read is issued, nothing is logged and no list is
\* returned.
C10_EmptyDirectoryFailsUpFront ==
  (readdirOk /\ Len(files) = 0 /\ pd # "idle") =>
    /\ pd = "thrown"
    /\ pdError = NoMediaFiles
    /\ reads = 0
    /\ missingTags = EmptyObject
    /\ result = <<>>

\* C10 witness: the call has thrown on an empty listing
C10_Witness ==
  /\ readdirOk
  /\ Len(files) = 0
  /\ pd = "thrown"
  /\ pdError = NoMediaFiles

\* C11: processDirectories returns only after every file task of the batch
\* has settled: when it has returned, no gatherTags call is pending, whatever
\* the order in which the reads completed or failed.
C11_ReturnsAfterAllSettled ==
  pd = "returned" => \A i \in Tasks : pc[i] \in {"fulfilled", "rejected"}

\* C11 witness: a batch of two files returned, one fulfilled and one rejected
C11_Witness ==
  /\ pd = "returned"
  /\ Len(files) = 2
  /\ \E i, k \in Tasks : pc[i] = "fulfilled" /\ pc[k] = "rejected"

\* entry e is {t: {val: v, write: w}} with w set
RequestsWrite(e, t, v) ==
  /\ IsSingleKey(e)
  /\ e.keys[1] = t
  /\ e.vals[1].type = "object"
  /\ \E n \in 1..Len(e.vals[1].keys) : e.vals[1].keys[n] = ValKey /\ e.vals[1].vals[n] = v
  /\ \E n \in 1..Len(e.vals[1].keys) :
       /\ e.vals[1].keys[n] = WriteKey
       /\ e.vals[1].vals[n] \notin {Undefined, Null, Bool(FALSE), Num(0), Str(<<>>)}

\* C12: every entry ledger[f][t] = v is justified: f is the base name of a
\* processed file whose raw value for t was missing (absent, null or a
\* whitespace-only string) and the specification has an entry
\* {t: {val: v, write: set}}; hence no entry stems from a bare request, from a
\* {t: fallback} request, from a request without write, or from a tag with a
\* value on the file.
C12_LedgerEntriesJustified ==
  \A f \in DOMAIN missingTags : \A t \in DOMAIN missingTags[f] :
    \E i \in Tasks :
      /\ Basename(files[i]) = f
      /\ Reconciled(i)
      /\ EmptyOnFile(Get(metadata[i], t))
      /\ \E j \in Positions : RequestsWrite(tagOptions[j], t, missingTags[f][t])

\* every file task of the batch has settled
BatchSettled ==
  pd \in {"waiting", "returned"} /\ \A i \in Tasks : pc[i] \in {"fulfilled", "rejected"}

DistinctBasenames ==
  \A i, k \in Tasks : i # k => Basename(files[i]) # Basename(files[k])

\* C13: once a batch of files with pairwise distinct base names has settled,
\* for every file processed successfully and every write-requested tag
\* missing on it, ledger[basename(file)][tag] is the configured val, in every
\* interleaving of the file tasks.
C13_NoLostUpdate ==
  (BatchSettled /\ DistinctBasenames) =>
    \A i \in Tasks : Returned(i) =>
      \A j \in Positions :
        LET e == tagOptions[j]
            tag == TagOf(e)
            ledger == LedgerOf(missingTags, Basename(files[i]))
        IN (IsWritePolicy(e) /\ EmptyOnFile(Get(metadata[i], tag)))
             => tag \in DOMAIN ledger /\ ledger[tag] = e.vals[1].vals[1]

\* C13 witness: two files with distinct base names, both lacking Title and
\* Credit, both logged with both tags
C13_Witness ==
  /\ BatchSettled
  /\ files = <<FileX, FileDY>>
  /\ \A i \in Tasks : Returned(i) /\ metadata[i] = EmptyObject
  /\ Len(tagOptions) = 2
  /\ \A i \in Tasks :
       /\ Basename(files[i]) \in DOMAIN missingTags
       /\ DOMAIN missingTags[Basename(files[i])] = {TitleKey, CreditKey}

\* the outcome of the call for file i of this run is the outcome the
\* reconciliation has under the specification spec, from an empty ledger
SameOutcomeAs(i, spec) ==
  LET other == Reconcile(metadata[i], files[i], rootDir, spec, EmptyObject)
  IN /\ other.threw <=> ~Returned(i)
     /\ Returned(i) => record[i] = other.rec
     /\ missingTags = other.ledger

\* C19: a specification {tag: v} gives the record and the (empty) ledger
\* that the specification {tag: {val: v}} gives, for every raw metadata, tag
\* and fallback value v.
C19_FallbackSyntaxesEquivalent ==
  \A i \in Tasks :
    (Reconciled(i) /\ Len(tagOptions) = 1 /\ IsPlainFallback(tagOptions[1])) =>
       /\ SameOutcomeAs(i, <<WithVal(TagOf(tagOptions[1]), tagOptions[1].vals[1])>>)
       /\ missingTags = EmptyObject

\* C20: a requested tag whose raw value is a string, a number or a boolean
\* that is not empty on the file (0 and false included) is carried by the
\* record with that raw value; the two path keys, which the record sets
\* itself, are left aside.
C20_PresentValueVerbatim ==
  \A i \in Tasks : Returned(i) =>
    \A j \in Positions :
      LET e == tagOptions[j]
          raw == Get(metadata[i], TagOf(e))
      IN (TagOf(e) \notin PathKeys /\ raw.type \in {"string", "number", "boolean"}
            /\ ~EmptyOnFile(raw))
         => /\ TagOf(e) \in DOMAIN record[i]
            /\ record[i][TagOf(e)] = raw

Malformed(e) == ~(e.type = "string" \/ (e.type = "object" /\ Len(e.keys) = 1))

\* C14: a specification with a malformed entry (a number, null, an array, an
\* empty object, a multi-key object) is rejected before any I/O: no read is
\* issued for it, no call returns a record with the entry ignored, and no
\* call fails with the metadata read error.
C14_MalformedEntryRejectedUpFront ==
  (\E j \in Positions : Malformed(tagOptions[j])) =>
     /\ reads = 0
     /\ \A i \in Tasks : pc[i] \notin {"fulfilled", "ending", "rejected"}

\* the step in which the call for file i leaves its read, a call k for the
\* same file, raw metadata and specification having been reconciled before
SecondRun(i, k) ==
  /\ k # i
  /\ files[k] = files[i] /\ metadata[k] = metadata[i]
  /\ Reconciled(k)
  /\ pc[i] = "reading" /\ pc'[i] # "reading"

\* C16: reconciliation is idempotent: a second run of gatherTags on the same
\* raw metadata and specification returns the record the first run returned
\* (and returns none when the first returned none), and leaves the ledger
\* exactly as the first run left it.
C16_Idempotent ==
  [][\A i, k \in Tasks : SecondRun(i, k) =>
        /\ missingTags' = missingTags
        /\ pc'[i] = "fulfilled" => (pc[k] = "fulfilled" /\ record'[i] = record[k])
        /\ (readOk[i] /\ ~ended /\ pc[k] = "fulfilled") => pc'[i] = "fulfilled"]_vars

\* both runs have returned, and the first logged a write request
C16_Witness ==
  /\ Len(files) = 2 /\ files[1] = files[2] /\ metadata[1] = metadata[2]
  /\ Returned(1) /\ Returned(2)
  /\ record[1] = record[2]
  /\ Basename(files[1]) \in DOMAIN missingTags

\* the timestamp-prefixed missing-tags file beside the primary output
IsMissingTagsFile(p) ==
  /\ Dirname(p) = Dirname(OutputFile(opts))
  /\ \E now \in Timestamps : Basename(p) = JsString(Num(now)) \o <<"-">> \o MissingTagsName

\* C17: extractMetadataToJsonFile writes the timestamp-prefixed missing-tags
\* file, beside the primary output it has written, only when the ledger is
\* not empty; with an empty ledger no file is written but the primary output.
C17_MissingTagsFileOnlyIfLedger ==
  /\ \A p \in outFiles :
       p # OutputFile(opts) =>
         /\ IsMissingTagsFile(p)
         /\ OutputFile(opts) \in outFiles
         /\ DOMAIN missingTags # {}
  /\ (em = "done" /\ DOMAIN missingTags = {}) => outFiles = {OutputFile(opts)}

\* the call has finished and the missing-tags file is written
C17_Witness ==
  /\ em = "done"
  /\ DOMAIN missingTags # {}
  /\ \E p \in outFiles : IsMissingTagsFile(p)

\* a required path is missing, tagOptions or validExtensions is present and
\* not an array, or the parent directory of a configured path is not writable
ConfigError ==
  \/ Undefined \in {opts.rootDir, opts.srcDir, opts.outputPath}
  \/ opts.tagOptions # Undefined /\ opts.tagOptions.type # "array"
  \/ opts.validExtensions # Undefined /\ opts.validExtensions.type # "array"
  \/ ParentDirs(opts) \cap unwritable # {}

\* C18: every configuration error is thrown to the caller by validateOptions
\* before a directory listing or a metadata read begins.
C18_ConfigErrorsRaisedUpFront ==
  (ConfigError /\ em # "idle") =>
     /\ em = "thrown"
     /\ emError \in ValidationErrors
     /\ pd = "idle"
     /\ reads = 0

(***************************************************************************)
(* Properties of the entry shapes (specification SpecPayload).             *)
(***************************************************************************)
\* C21: for a single-key entry {tag: v} whose value v has no 'val' property
\* and whose tag is absent, null or whitespace-only on the file, the call
\* succeeds and the record holds v itself, whatever the type of v (string,
\* number, boolean, array, nested object, null).  Stated for the entries
\* whose tag no other entry names.
C21_PayloadOfAnyType ==
  \A i \in Tasks : Reconciled(i) =>
    \A j \in Positions :
      LET e == tagOptions[j]
          tag == TagOf(e)
      IN (/\ IsPlainFallback(e)
          /\ EmptyOnFile(Get(metadata[i], tag))
          /\ tag \notin PathKeys
          /\ OnlyEntryFor(j))
           => /\ pc[i] = "fulfilled"
              /\ Get(record[i], tag) = e.vals[1]

\* {tag: {val: v, write: true}} with write exactly the boolean true
WritesExactlyTrue(e, t) ==
  /\ IsSingleKey(e)
  /\ e.keys[1] = t
  /\ e.vals[1].type = "object"
  /\ HasOwn(e.vals[1], ValKey)
  /\ GetProp(e.vals[1], WriteKey) = Bool(TRUE)

\* C22: a ledger entry is recorded for a tag only by an entry whose write is
\* exactly the boolean true: when no entry of the specification for the tag
\* has write = true (write absent, false, or a truthy non-boolean such as 1
\* or 'y'), the ledger has no entry for the tag.
C22_WriteOnlyWhenExactlyTrue ==
  \A f \in DOMAIN missingTags :
    \A t \in DOMAIN missingTags[f] :
      \E j \in Positions : WritesExactlyTrue(tagOptions[j], t)

\* entry j is the last of several entries that name its tag
LastOfSeveral(j) ==
  /\ \E k \in Positions : k < j /\ TagOf(tagOptions[k]) = TagOf(tagOptions[j])
  /\ \A k \in Positions : k > j => TagOf(tagOptions[k]) # TagOf(tagOptions[j])

\* C23: when a tag is named by several entries the last one is
\* authoritative: in the returned record the tag is present or absent, and
\* has the value, that the specification holding the last entry alone gives
\* for the same raw metadata.
C23_LastOccurrenceWins ==
  \A i \in Tasks : Returned(i) =>
    \A j \in Positions : LastOfSeveral(j) =>
      LET tag == TagOf(tagOptions[j])
          alone == Reconcile(metadata[i], files[i], rootDir, <<tagOptions[j]>>, EmptyObject)
      IN /\ ~alone.threw
         /\ (tag \in DOMAIN record[i]) <=> (tag \in DOMAIN alone.rec)
         /\ Get(record[i], tag) = Get(alone.rec, tag)

(***************************************************************************)
(* Properties of successive runs (specification SpecRuns).                 *)
(***************************************************************************)
\* C24: the ledger does not leak across runs: when the second of two
\* independent runs of the process has finished, every entry of the ledger
\* belongs to a file of the second run and to a write-requesting entry of
\* the second run's specification.
C24_LedgerNotLeaked ==
  (run = 2 /\ em = "done") =>
    \A f \in DOMAIN missingTags :
      \A t \in DOMAIN missingTags[f] :
        /\ \E i \in Tasks : Basename(files[i]) = f
        /\ \E j \in Positions : RequestsWrite(tagOptions[j], t, missingTags[f][t])

(***************************************************************************)
(* Properties of extractMetadataToJsonFile (specification SpecExtract).    *)
(***************************************************************************)
\* C25: the shared handle is ended only after every file task of the batch
\* has settled: while the handle is ended no task is still at its read or in
\* its catch block, on the success path and on every failure path.
C25_HandleEndedAfterBatch ==
  ended => \A i \in Tasks : pc[i] \notin {"reading", "ending"}

(***************************************************************************)
(* Properties of group and flattened tags (specification SpecGroups).      *)
(***************************************************************************)
\* raw metadata m agrees with the file's on tag t
AgreesOn(m, i, t) ==
  /\ (t \in DOMAIN m) <=> (t \in DOMAIN metadata[i])
  /\ Get(m, t) = Get(metadata[i], t)

\* C26: reconciliation is local per tag: for every requested tag t, any
\* other raw metadata that agrees with the file's on t and for which the
\* call returns gives the same content for t (same presence, same value):
\* a flattened child tag is not synthesized from its parent group tag, nor
\* the parent from the child.
C26_LocalPerTag ==
  \A i \in Tasks : Returned(i) =>
    \A j \in Positions :
      LET t == TagOf(tagOptions[j])
      IN \A m \in GroupMetadata :
           LET other == Reconcile(m, files[i], rootDir, tagOptions, EmptyObject)
           IN (AgreesOn(m, i, t) /\ ~other.threw) =>
                /\ (t \in DOMAIN other.rec) <=> (t \in DOMAIN record[i])
                /\ Get(other.rec, t) = Get(record[i], t)

\* the flattened child and the parent group both requested on a file that
\* reports the parent only: the record has the parent and not the child
C26_Witness ==
  \E i \in Tasks :
    /\ Returned(i)
    /\ tagOptions = <<Bare(CreatorWorkURLKey), Bare(CreatorContactInfoKey)>>
    /\ DOMAIN metadata[i] = {CreatorContactInfoKey}
    /\ CreatorWorkURLKey \notin DOMAIN record[i]
    /\ Get(record[i], CreatorContactInfoKey) = metadata[i][CreatorContactInfoKey]

(***************************************************************************)
(* Properties of getFiles (specification SpecListing).                     *)
(***************************************************************************)
\* the paths of the non-hidden files under dir, not below a hidden
\* directory, whose extension is one of exts whatever the casing of either
RECURSIVE Matching(_, _, _)
Matching(dir, es, exts) ==
  UNION { IF Len(es[n].name) > 0 /\ es[n].name[1] = "." THEN {}
          ELSE IF es[n].isDirectory
          THEN Matching(Append(dir, es[n].name), es[n].entries, exts)
          ELSE IF \E k \in 1..Len(exts) :
                    toLowerCase(exts[k]) = toLowerCase(extname(es[n].name))
          THEN {Append(dir, es[n].name)}
          ELSE {} : n \in 1..Len(es) }

\* C27: getFiles returns exactly the non-hidden files, at any depth and not
\* below a hidden directory, whose extension matches one of the given
\* extensions case-insensitively, for every casing of the file's extension
\* and of the entries of the extensions list.
C27_ListsMatchingFiles ==
  gf = "returned" =>
    /\ {filesList[n] : n \in 1..Len(filesList)} = Matching(rootDir, tree, extensions)
    /\ \A n, k \in 1..Len(filesList) : n # k => filesList[n] # filesList[k]

(***************************************************************************)
(* Further properties of gatherTags (specification SpecGather).            *)
(***************************************************************************)
\* C28: a file whose task fails contributes nothing to the ledger: when the
\* call for the file has thrown, on a read failure or on an error raised
\* while reconciling an entry, the ledger, empty before the call, holds no
\* entry under the file's name.
C28_FailedTaskLogsNothing ==
  \A i \in Tasks :
    pc[i] \in {"ending", "rejected"} => Basename(files[i]) \notin DOMAIN missingTags

\* C29: with a non-empty specification, every key of a returned record is a
\* tag named by an entry of the specification, or SourceFile, or Directory:
\* a raw tag that was not requested is not in the output.
C29_OnlyRequestedKeys ==
  \A i \in Tasks : (Returned(i) /\ Len(tagOptions) > 0) =>
    DOMAIN record[i] \subseteq {TagOf(tagOptions[j]) : j \in Positions} \cup PathKeys

\* a record returned without the Title the file has, Title not requested
C29_Witness ==
  \E i \in Tasks :
    /\ Returned(i)
    /\ tagOptions = <<Bare(SourceFileKey)>>
    /\ Get(metadata[i], TitleKey) = OnDiskStr
    /\ TitleKey \notin DOMAIN record[i]

(***************************************************************************)
(* Further properties of the batch (specification Spec).                   *)
(***************************************************************************)
\* the tags a write: true entry names that are missing on file i
WriteMissing(i) ==
  {TagOf(tagOptions[j]) : j \in {k \in Positions :
      IsWritePolicy(tagOptions[k]) /\ EmptyOnFile(Get(metadata[i], TagOf(tagOptions[k])))}}

\* the files of the batch named b
Named(b) == {i \in Tasks : Basename(files[i]) = b}

\* once the batch has settled, the ledger has one entry per base name, with
\* every write-requested missing tag of the files of that name that returned
\* a record and with no tag but such tags of the files of that name that
\* could be read
LedgerIsUnion ==
  BatchSettled =>
    /\ \A i \in Tasks :
         (Returned(i) /\ WriteMissing(i) # {}) => Basename(files[i]) \in DOMAIN missingTags
    /\ \A b \in DOMAIN missingTags :
         /\ UNION {WriteMissing(i) : i \in {k \in Named(b) : Returned(k)}}
              \subseteq DOMAIN missingTags[b]
         /\ DOMAIN missingTags[b]
              \subseteq UNION {WriteMissing(i) : i \in {k \in Named(b) : readOk[k]}}

\* no step removes an entry or a tag of an entry from the ledger
LedgerGrows ==
  \A b \in DOMAIN missingTags :
    /\ b \in DOMAIN missingTags'
    /\ DOMAIN missingTags[b] \subseteq DOMAIN missingTags'[b]

\* C30: when files of a batch share a base name, the ledger holds one entry
\* under that name whose tags are the union of the write-requested missing
\* tags of those files; no task removes what another recorded, in any
\* interleaving, and nothing is deleted from the ledger during a run.
C30_SharedBasenameUnion ==
  /\ []LedgerIsUnion
  /\ [][LedgerGrows]_vars

\* two files named x, in different directories, both processed: the one
\* lacks Title and Credit, the other Credit only; one entry with both tags
C30_Witness ==
  /\ BatchSettled
  /\ files = <<FileX, FileDX>>
  /\ Returned(1) /\ Returned(2)
  /\ metadata[1] = EmptyObject
  /\ TitleKey \in DOMAIN metadata[2]
  /\ DOMAIN missingTags = {Basename(FileX)}
  /\ DOMAIN missingTags[Basename(FileX)] = {TitleKey, CreditKey}

====
